---------------------------- MODULE Spec2Model ----------------------------
(***************************************************************************)
(* Task store of the task-management API: the volatile (in-memory) and the *)
(* durable (SQLite) data-access layers, the controllers that call them and *)
(* the request validation in front of the controllers.                     *)
(*                                                                         *)
(* Strings are sequences of one-character strings.  A Date is its number   *)
(* of milliseconds; an ISO-8601 text is the zero-padded digits of its      *)
(* millisecond field (every modelled instant lies in the same second, so   *)
(* the rest of the text is a common prefix).  undefined/null results are   *)
(* the empty sequence, a found record t is <<t>>.  A falsy optional        *)
(* argument (undefined, 0, "") is 0, <<>> or "".                           *)
(***************************************************************************)
EXTENDS Integers, Sequences, FiniteSets, TLC

VARIABLES
    tasks,      \* volatile store: the module-level array `tasks`
    db,         \* durable store: rows of table `tasks`, in rowid order
    now,        \* the wall clock read by `new Date()`
    nextId,     \* number of identifiers uuidv4() has handed out
    last,       \* the last completed call: its arguments, pre-state and results
    pc,         \* durable async calls in flight: position of each caller
    loc,        \* durable async calls in flight: locals of each caller
    base        \* durable table when the current window of calls began

vars == <<tasks, db, now, nextId, last, pc, loc, base>>

-----------------------------------------------------------------------------
(* Bounds of the model *)

MaxIds == 2
MaxClock == 10
StartClock == 9
MaxQueryTasks == 3
MaxPage == 3
MaxLimit == 2

-----------------------------------------------------------------------------
(* Data *)

TaskStatus == {"PENDING", "IN_PROGRESS", "COMPLETED"}

Ids == 1..MaxIds
Clock == 0..MaxClock

Min(a, b) == IF a < b THEN a ELSE b

\* String.prototype.toLowerCase on one character
LowerChar(c) ==
    CASE c = "A" -> "a"
      [] c = "B" -> "b"
      [] OTHER -> c

toLowerCase(s) ==
    IF s = <<>> THEN <<>> ELSE [i \in 1..Len(s) |-> LowerChar(s[i])]

\* toLowerCase / toUpperCase on the status words
statusToLowerCase(s) ==
    CASE s = "PENDING" -> "pending"
      [] s = "IN_PROGRESS" -> "in_progress"
      [] s = "In_Progress" -> "in_progress"
      [] s = "COMPLETED" -> "completed"
      [] s = "ARCHIVED" -> "archived"
      [] OTHER -> s

statusToUpperCase(s) ==
    CASE s = "pending" -> "PENDING"
      [] s = "in_progress" -> "IN_PROGRESS"
      [] s = "In_Progress" -> "IN_PROGRESS"
      [] s = "completed" -> "COMPLETED"
      [] s = "archived" -> "ARCHIVED"
      [] OTHER -> s

\* String.prototype.includes
includes(s, sub) ==
    \E i \in 0..(Len(s) - Len(sub)) : SubSeq(s, i + 1, i + Len(sub)) = sub

\* SQLite's LIKE: % matches any run, _ any one character, letters fold case
RECURSIVE Like(_, _)
Like(pat, s) ==
    IF pat = <<>> THEN s = <<>>
    ELSE IF Head(pat) = "%"
         THEN Like(Tail(pat), s) \/ (s # <<>> /\ Like(pat, Tail(s)))
    ELSE IF s = <<>> THEN FALSE
    ELSE IF Head(pat) = "_" THEN Like(Tail(pat), Tail(s))
    ELSE LowerChar(Head(pat)) = LowerChar(Head(s)) /\ Like(Tail(pat), Tail(s))

\* Date.prototype.toISOString: the millisecond field, zero-padded to 3 digits
toISOString(t) == << t \div 100, (t \div 10) % 10, t % 10 >>

\* new Date(text)
parseDate(s) == s[1] * 100 + s[2] * 10 + s[3]

\* comparison of two texts of equal length, as SQLite orders TEXT
RECURSIVE TextLess(_, _)
TextLess(a, b) ==
    IF a = <<>> \/ b = <<>> THEN a = <<>> /\ b # <<>>
    ELSE IF Head(a) # Head(b) THEN Head(a) < Head(b)
    ELSE TextLess(Tail(a), Tail(b))

\* stable sort, descending, of s under the order less (the pairs <<i, j>> with
\* s[i] before s[j] in ascending order): s[i] comes after every element
\* greater than it and after the earlier elements that are neither greater
\* nor less
SortDesc(s, less) ==
    LET rank(i) ==
            Cardinality({j \in 1..Len(s) : <<i, j>> \in less})
            + Cardinality({j \in 1..(i - 1) : <<i, j>> \notin less /\ <<j, i>> \notin less})
            + 1
    IN  IF s = <<>> THEN <<>>
        ELSE [r \in 1..Len(s) |-> s[CHOOSE i \in 1..Len(s) : rank(i) = r]]

\* Array.prototype.slice(start, end) for 0 <= start <= end
slice(s, start, end) ==
    IF start >= Min(end, Len(s)) THEN <<>>
    ELSE SubSeq(s, start + 1, Min(end, Len(s)))

\* Math.ceil(a / b) for a >= 0, b >= 1
ceilDiv(a, b) == (a + b - 1) \div b

\* Array.prototype.findIndex, 1-based, over the set of indices that satisfy
\* the test: the least of them, or 0 for -1
findIndex(matching) ==
    IF matching = {} THEN 0
    ELSE CHOOSE i \in matching : \A j \in matching : i <= j

RemoveAt(s, i) ==
    IF i > Len(s) THEN s ELSE SubSeq(s, 1, i - 1) \o SubSeq(s, i + 1, Len(s))


-----------------------------------------------------------------------------
(* Volatile store: the in-memory array *)

Keys == {"id", "title", "description", "status", "createdAt", "updatedAt"}

\* a merge that rebuilds the record from the patch and defaults the description
spread_resetsDescription(task, updates, t) ==
    [k \in Keys |->
        IF k = "updatedAt" THEN t
        ELSE IF k \in DOMAIN updates THEN updates[k]
        ELSE IF k = "description" THEN <<>>
        ELSE task[k]]

\* { ...task, updatedAt: new Date(), ...updates }: the patch spread last
spread_patchLast(task, updates, t) ==
    [k \in Keys |->
        IF k \in DOMAIN updates THEN updates[k]
        ELSE IF k = "updatedAt" THEN t
        ELSE task[k]]

\* { ...task, ...updates, updatedAt: new Date() }
spread(task, updates, t) ==
    [k \in Keys |->
        IF k = "updatedAt" THEN t
        ELSE IF k \in DOMAIN updates THEN updates[k]
        ELSE task[k]]

\* the status and search filters of the in-memory getAllTasks
V_filter(ts, status, search) ==
    LET byStatus ==
            IF status # ""
            THEN SelectSeq(ts, LAMBDA task :
                    statusToLowerCase(task.status) = statusToLowerCase(status))
            ELSE ts
    IN  IF search # <<>>
        THEN SelectSeq(byStatus, LAMBDA task :
                includes(toLowerCase(task.title), toLowerCase(search)))
        ELSE byStatus

\* sort((a, b) => a.createdAt.getTime() - b.createdAt.getTime()): oldest first
V_sort_ascending(ts) ==
    SortDesc(ts, {ij \in (1..Len(ts)) \X (1..Len(ts)) :
                    ts[ij[1]].createdAt > ts[ij[2]].createdAt})

\* filteredTasks.sort((a, b) => b.createdAt.getTime() - a.createdAt.getTime())
V_sort(ts) ==
    SortDesc(ts, {ij \in (1..Len(ts)) \X (1..Len(ts)) :
                    ts[ij[1]].createdAt < ts[ij[2]].createdAt})

\* getAllTasks with startIndex = page * limit
V_getAllTasks_startAtPage(ts, page, limit, status, search) ==
    LET filteredTasks == V_sort(V_filter(ts, status, search))
        total == Len(filteredTasks)
    IN  IF page # 0 /\ limit # 0
        THEN [tasks |-> slice(filteredTasks, page * limit, page * limit + limit),
              total |-> total,
              page |-> page,
              totalPages |-> ceilDiv(total, limit)]
        ELSE [tasks |-> filteredTasks, total |-> total]

V_getAllTasks(ts, page, limit, status, search) ==
    LET filteredTasks == V_sort(V_filter(ts, status, search))
        total == Len(filteredTasks)
    IN  IF page # 0 /\ limit # 0
        THEN [tasks |-> slice(filteredTasks, (page - 1) * limit,
                              (page - 1) * limit + limit),
              total |-> total,
              page |-> page,
              totalPages |-> ceilDiv(total, limit)]
        ELSE [tasks |-> filteredTasks, total |-> total]

\* the array after a getAllTasks that starts from `let filteredTasks = tasks`:
\* without a filter the sort runs on the stored array itself
V_tasksAfterGetAllTasks_noCopy(ts, page, limit, status, search) ==
    IF status = "" /\ search = <<>> THEN V_sort(ts) ELSE ts

\* the array `tasks` after getAllTasks: filter, sort and slice work on the copy
\* [...tasks] and on the arrays made from it
V_tasksAfterGetAllTasks(ts, page, limit, status, search) == ts

V_findIndex(ts, id) == findIndex({i \in 1..Len(ts) : ts[i].id = id})

V_getTaskById(ts, id) ==
    IF V_findIndex(ts, id) = 0 THEN <<>> ELSE <<ts[V_findIndex(ts, id)]>>

V_addTask(ts, task) == Append(ts, task)

\* the array after updateTask(id, updates) at time t
V_updateTask(ts, id, updates, t) ==
    LET taskIndex == V_findIndex(ts, id)
    IN  IF taskIndex = 0 THEN ts
        ELSE [ts EXCEPT ![taskIndex] = spread(ts[taskIndex], updates, t)]

\* what updateTask(id, updates) returns: null, or tasks[taskIndex] after the merge
V_updateTaskResult(ts, id, updates, t) ==
    LET taskIndex == V_findIndex(ts, id)
    IN  IF taskIndex = 0 THEN <<>>
        ELSE <<V_updateTask(ts, id, updates, t)[taskIndex]>>

\* deleteTask without the taskIndex === -1 return: splice(-1, 1) removes the
\* last element
V_deleteTask_noCheck(ts, id) ==
    RemoveAt(ts, IF V_findIndex(ts, id) = 0 THEN Len(ts) ELSE V_findIndex(ts, id))

\* tasks.splice(taskIndex + 1, 1): the element after the one found
V_deleteTask_spliceNext(ts, id) ==
    IF V_findIndex(ts, id) = 0 THEN ts ELSE RemoveAt(ts, V_findIndex(ts, id) + 1)

V_deleteTask(ts, id) ==
    IF V_findIndex(ts, id) = 0 THEN ts ELSE RemoveAt(ts, V_findIndex(ts, id))

V_deleteTaskResult(ts, id) == V_findIndex(ts, id) # 0

V_getTaskCount(ts) == Len(ts)

V_clearAllTasks(ts) == <<>>

-----------------------------------------------------------------------------
(* Durable store: the SQLite table, one operator per SQL statement *)

\* the row INSERTed for a task: timestamps as ISO texts
toRow(task) ==
    [task EXCEPT !.createdAt = toISOString(task.createdAt),
                 !.updatedAt = toISOString(task.updatedAt)]

\* { ...task, createdAt: new Date(task.createdAt), updatedAt: new Date(task.updatedAt) }
formatTask(row) ==
    [row EXCEPT !.createdAt = parseDate(row.createdAt),
                !.updatedAt = parseDate(row.updatedAt)]

formatTasks(rows) ==
    IF rows = <<>> THEN <<>> ELSE [i \in 1..Len(rows) |-> formatTask(rows[i])]

\* the status parameter pushed as given, without toUpperCase()
D_where_noUpper(rows, status, search) ==
    LET byStatus ==
            IF status # ""
            THEN SelectSeq(rows, LAMBDA row : row.status = status)
            ELSE rows
    IN  IF search # <<>>
        THEN SelectSeq(byStatus, LAMBDA row :
                Like(<<"%">> \o search \o <<"%">>, row.title))
        ELSE byStatus

\* WHERE 1=1 [AND status = ?] [AND title LIKE ?]
D_where(rows, status, search) ==
    LET byStatus ==
            IF status # ""
            THEN SelectSeq(rows, LAMBDA row : row.status = statusToUpperCase(status))
            ELSE rows
    IN  IF search # <<>>
        THEN SelectSeq(byStatus, LAMBDA row :
                Like(<<"%">> \o search \o <<"%">>, row.title))
        ELSE byStatus

\* a count query built before the search condition is appended
D_countQuery_noSearch(rows, status, search) == Len(D_where(rows, status, <<>>))

\* SELECT COUNT(*) as total FROM tasks WHERE ...
D_countQuery(rows, status, search) == Len(D_where(rows, status, search))

\* ORDER BY createdAt DESC; rows with equal createdAt come out in rowid order
D_orderBy(rows) ==
    SortDesc(rows, {ij \in (1..Len(rows)) \X (1..Len(rows)) :
                      TextLess(rows[ij[1]].createdAt, rows[ij[2]].createdAt)})

\* LIMIT appended whenever limit is given, with page defaulting to 1
D_selectQuery_limitAlone(rows, page, limit, status, search) ==
    LET ordered == D_orderBy(D_where(rows, status, search))
        from == IF page = 0 THEN 0 ELSE (page - 1) * limit
    IN  IF limit # 0 THEN slice(ordered, from, from + limit) ELSE ordered

\* SELECT * FROM tasks WHERE ... ORDER BY createdAt DESC [LIMIT ? OFFSET ?]
D_selectQuery(rows, page, limit, status, search) ==
    LET ordered == D_orderBy(D_where(rows, status, search))
    IN  IF page # 0 /\ limit # 0
        THEN slice(ordered, (page - 1) * limit, (page - 1) * limit + limit)
        ELSE ordered

\* what getAllTasks returns from the count read off countRows and the page
\* read off pageRows
D_getAllTasksResult(countRows, pageRows, page, limit, status, search) ==
    LET total == D_countQuery(countRows, status, search)
        formattedTasks == formatTasks(D_selectQuery(pageRows, page, limit, status, search))
    IN  IF page # 0 /\ limit # 0
        THEN [tasks |-> formattedTasks,
              total |-> total,
              page |-> page,
              totalPages |-> ceilDiv(total, limit)]
        ELSE [tasks |-> formattedTasks, total |-> total]

\* getAllTasks with no other statement between its two queries
D_getAllTasks(rows, page, limit, status, search) ==
    D_getAllTasksResult(rows, rows, page, limit, status, search)

\* the table after getAllTasks: its two statements are SELECTs
D_rowsAfterGetAllTasks(rows, page, limit, status, search) == rows

D_findIndex(rows, id) == findIndex({i \in 1..Len(rows) : rows[i].id = id})

\* SELECT * FROM tasks WHERE id = ?
D_getTaskById(rows, id) ==
    IF D_findIndex(rows, id) = 0 THEN <<>>
    ELSE <<formatTask(rows[D_findIndex(rows, id)])>>

\* INSERT INTO tasks ...; id is the PRIMARY KEY, a second row of an id is refused
D_addTask(rows, task) ==
    IF D_findIndex(rows, task.id) # 0 THEN rows ELSE Append(rows, toRow(task))

\* a SET clause that names every column of the merged record
D_setClauses_allColumns(updates) == {"title", "description", "status", "updatedAt"}

\* the columns of the UPDATE's SET clause
D_setClauses(updates) ==
    {k \in {"title", "description", "status"} : k \in DOMAIN updates} \cup {"updatedAt"}

\* UPDATE tasks SET ... without the WHERE clause: every row is set
D_updateQuery_noWhere(rows, id, updates, updatedTask) ==
    IF rows = <<>> THEN <<>>
    ELSE [i \in 1..Len(rows) |->
            [k \in Keys |->
                IF k \notin D_setClauses(updates) THEN rows[i][k]
                ELSE IF k = "updatedAt" THEN toISOString(updatedTask.updatedAt)
                ELSE updatedTask[k]]]

\* UPDATE tasks SET ... WHERE id = ?, with the parameters taken from updatedTask
D_updateQuery(rows, id, updates, updatedTask) ==
    IF rows = <<>> THEN <<>>
    ELSE [i \in 1..Len(rows) |->
            IF rows[i].id # id THEN rows[i]
            ELSE [k \in Keys |->
                    IF k \notin D_setClauses(updates) THEN rows[i][k]
                    ELSE IF k = "updatedAt" THEN toISOString(updatedTask.updatedAt)
                    ELSE updatedTask[k]]]

\* the table after updateTask(id, updates) at time t, run with no other
\* statement between its three
D_updateTask(rows, id, updates, t) ==
    LET existingTask == D_getTaskById(rows, id)
    IN  IF existingTask = <<>> THEN rows
        ELSE D_updateQuery(rows, id, updates, spread(existingTask[1], updates, t))

\* what that updateTask returns: undefined, or the row read back
D_updateTaskResult(rows, id, updates, t) ==
    IF D_getTaskById(rows, id) = <<>> THEN <<>>
    ELSE D_getTaskById(D_updateTask(rows, id, updates, t), id)

\* DELETE FROM tasks WHERE id = ?
D_deleteTask(rows, id) == SelectSeq(rows, LAMBDA row : row.id # id)

\* (result.changes ?? 0) > 0
D_deleteTaskResult(rows, id) == Len(rows) - Len(D_deleteTask(rows, id)) > 0

D_getTaskCount(rows) == Len(rows)

D_clearAllTasks(rows) == <<>>

-----------------------------------------------------------------------------
(* Request validation and the controllers *)

Restrict(f, K) == [k \in K |-> f[k]]

\* the schema with title: Joi.string().max(100).allow("")
createTaskSchema_emptyTitle(body) ==
    /\ Len(body.title) <= 100
    /\ Len(body.description) <= 500
    /\ body.status \in TaskStatus \cup {""}

\* createTaskSchema: title required, 1..100 characters; description optional,
\* up to 500 characters, "" allowed; status optional, one of the enumeration.
\* An omitted description or status is <<>> or ""; an omitted title is
\* refused like an empty one
createTaskSchema(body) ==
    /\ Len(body.title) >= 1 /\ Len(body.title) <= 100
    /\ Len(body.description) <= 500
    /\ body.status \in TaskStatus \cup {""}

\* the schema without .min(1)
updateTaskSchema_noMin(body) ==
    /\ DOMAIN body \subseteq {"title", "description", "status"}
    /\ "title" \in DOMAIN body => Len(body.title) >= 1 /\ Len(body.title) <= 100
    /\ "description" \in DOMAIN body => Len(body.description) <= 500
    /\ "status" \in DOMAIN body => body.status \in TaskStatus

\* updateTaskSchema: title 1..100 characters, description up to 500, status one
\* of the enumeration, no other key, at least one key
updateTaskSchema(body) ==
    /\ DOMAIN body \subseteq {"title", "description", "status"}
    /\ "title" \in DOMAIN body => Len(body.title) >= 1 /\ Len(body.title) <= 100
    /\ "description" \in DOMAIN body => Len(body.description) <= 500
    /\ "status" \in DOMAIN body => body.status \in TaskStatus
    /\ Cardinality(DOMAIN body) >= 1

\* the Task built by the createTask controller; createdAt and updatedAt come
\* from two evaluations of new Date(), at t1 and t2
newTask(id, title, description, status, t1, t2) ==
    [id |-> id,
     title |-> title,
     description |-> IF description = <<>> THEN <<>> ELSE description,
     status |-> IF status = "" THEN "PENDING" ELSE status,
     createdAt |-> t1,
     updatedAt |-> t2]

\* what a controller holds after calling a store function without await: the
\* value itself from the volatile store's synchronous functions
V_returned(value) == [promise |-> FALSE, value |-> value]

\* and from the durable store's async functions a Promise, an object that is
\* truthy and has none of the properties of the value it will resolve to
D_promise(value) == [promise |-> TRUE, value |-> value]

\* status code of the createTask controller: addTask is called in the try
\* block and nothing is read from what it returns, so the answer is 201 unless
\* the call throws, which neither addTask does
createTaskController(createdTask) == 201

\* status code of getTaskByIdController: if (!task) 404, else 200
getTaskByIdController(task) ==
    IF ~task.promise /\ task.value = <<>> THEN 404 ELSE 200

\* status code of updateTaskController: if (!updatedTask) 404, else 200
updateTaskController(updatedTask) ==
    IF ~updatedTask.promise /\ updatedTask.value = <<>> THEN 404 ELSE 200

\* status code of deleteTaskController: if (!deleted) 404, else 200
deleteTaskController(deleted) ==
    IF ~deleted.promise /\ deleted.value = FALSE THEN 404 ELSE 200

\* queryParamsSchema: page an integer >= 1, limit an integer 1..100, status
\* one of the enumeration (as written), search up to 100 characters, and no
\* other key
queryParamsSchema(query) ==
    /\ DOMAIN query \subseteq {"page", "limit", "status", "search"}
    /\ "page" \in DOMAIN query => query.page >= 1
    /\ "limit" \in DOMAIN query => query.limit >= 1 /\ query.limit <= 100
    /\ "status" \in DOMAIN query => query.status \in TaskStatus
    /\ "search" \in DOMAIN query => Len(query.search) <= 100

\* the arguments getAllTasksController passes on: an absent page or limit is
\* undefined, an absent status or search too
pageNum(query) == IF "page" \in DOMAIN query THEN query.page ELSE 0
limitNum(query) == IF "limit" \in DOMAIN query THEN query.limit ELSE 0
statusOf(query) == IF "status" \in DOMAIN query THEN query.status ELSE ""
searchOf(query) == IF "search" \in DOMAIN query THEN query.search ELSE <<>>

\* the answer of getAllTasksController from `const result = getAllTasks(...)`
\* on; the properties of a Promise are undefined and JSON leaves them out
getAllTasksController(result, query) ==
    IF result.promise
    THEN IF pageNum(query) # 0 /\ limitNum(query) # 0
         THEN [code |-> 200, pagination |-> [itemsPerPage |-> limitNum(query)]]
         ELSE [code |-> 200]
    ELSE IF pageNum(query) # 0 /\ limitNum(query) # 0
         THEN [code |-> 200,
               data |-> result.value.tasks,
               pagination |-> [currentPage |-> result.value.page,
                               totalPages |-> result.value.totalPages,
                               totalItems |-> result.value.total,
                               itemsPerPage |-> limitNum(query)],
               total |-> result.value.total]
         ELSE [code |-> 200,
               data |-> result.value.tasks,
               total |-> result.value.total]

\* getTaskStats from `const allTasks = getAllTasks()` on: reading .length of an
\* undefined allTasks.tasks throws, and the catch block answers 500
getTaskStats(allTasks) ==
    IF allTasks.promise
    THEN [code |-> 500]
    ELSE LET ts == allTasks.value.tasks
         IN  [code |-> 200,
              data |->
                [total |-> Len(ts),
                 pending |-> Len(SelectSeq(ts, LAMBDA task : task.status = "PENDING")),
                 inProgress |-> Len(SelectSeq(ts, LAMBDA task : task.status = "IN_PROGRESS")),
                 completed |-> Len(SelectSeq(ts, LAMBDA task : task.status = "COMPLETED"))]]

-----------------------------------------------------------------------------
(* Inputs *)

\* request bodies of POST /tasks accepted by createTaskSchema; an omitted
\* description or status is <<>> or ""
CreateBodies ==
    { [title |-> <<"A", "b">>, description |-> <<"d">>, status |-> "COMPLETED"],
      [title |-> <<"_">>, description |-> <<>>, status |-> ""] }

\* request bodies of POST /tasks, accepted and refused
PostBodies ==
    CreateBodies
    \cup { [title |-> <<>>, description |-> <<"d">>, status |-> "PENDING"],
           [title |-> <<"b">>, description |-> <<>>, status |-> "ARCHIVED"] }

PatchValues ==
    [title |-> <<"b">>, description |-> <<"d">>, status |-> "COMPLETED", updatedAt |-> 0]

\* sparse patches over title, description and status, with or without an
\* updatedAt key
Patches ==
    {Restrict(PatchValues, K) :
        K \in { {}, {"title"}, {"description"}, {"status"},
                {"status", "updatedAt"} }}

\* request bodies of PUT /tasks/:id, valid and invalid
Bodies ==
    { Restrict(PatchValues, {}), Restrict(PatchValues, {"status"}),
      [title |-> <<>>], [id |-> 1, title |-> <<"b">>] }

Procs == {1, 2}

-----------------------------------------------------------------------------
(* Calls that run to completion, one at a time, applied to both stores with
   the same arguments and the same clock *)

Idle == [p \in Procs |-> "idle"]
NoLocals == [p \in Procs |-> [op |-> "none"]]

Init ==
    /\ tasks = <<>>
    /\ db = <<>>
    /\ now = StartClock
    /\ nextId = 0
    /\ last = [op |-> "none"]
    /\ pc = Idle
    /\ loc = NoLocals
    /\ base = <<>>

\* the clock advances between calls; a call that runs to completion reads
\* the clock itself (createTask reads it twice)
Tick ==
    /\ last.op = "none"
    /\ now < MaxClock
    /\ now' = now + 1
    /\ UNCHANGED <<tasks, db, nextId, last, pc, loc, base>>

\* POST /tasks: validateBody(createTaskSchema), then the createTask controller
\* and addTask
CreateTask ==
    \E body \in PostBodies, t2 \in {now, Min(now + 1, MaxClock)} :
        /\ last.op = "none"
        /\ nextId < MaxIds
        /\ createTaskSchema(body)
        /\ LET task == newTask(nextId + 1, body.title, body.description,
                               body.status, now, t2)
           IN  /\ tasks' = V_addTask(tasks, task)
               /\ db' = D_addTask(db, task)
               /\ last' = [op |-> "createTask", body |-> body, task |-> task,
                           preTasks |-> tasks, preDb |-> db]
        /\ nextId' = nextId + 1
        /\ now' = t2
        /\ UNCHANGED <<pc, loc, base>>

\* POST /tasks with a body validateBody(createTaskSchema) refuses: 400
CreateTaskRefused ==
    \E body \in PostBodies :
        /\ last.op = "none"
        /\ ~createTaskSchema(body)
        /\ last' = [op |-> "POST", body |-> body, code |-> 400,
                    preTasks |-> tasks, preDb |-> db]
        /\ UNCHANGED <<tasks, db, now, nextId, pc, loc, base>>

GetTaskById ==
    \E id \in Ids :
        /\ last.op = "none"
        /\ last' = [op |-> "getTaskById", id |-> id,
                    preTasks |-> tasks, preDb |-> db,
                    retV |-> V_getTaskById(tasks, id),
                    retD |-> D_getTaskById(db, id),
                    codeV |-> getTaskByIdController(V_returned(V_getTaskById(tasks, id))),
                    codeD |-> getTaskByIdController(D_promise(D_getTaskById(db, id)))]
        /\ UNCHANGED <<tasks, db, now, nextId, pc, loc, base>>

Updated(op, id, updates, code) ==
    /\ last.op = "none"
    /\ tasks' = V_updateTask(tasks, id, updates, now)
    /\ db' = D_updateTask(db, id, updates, now)
    /\ last' = [op |-> op, id |-> id, updates |-> updates, at |-> now,
                code |-> code, preTasks |-> tasks, preDb |-> db,
                codeD |-> IF code = 0 THEN 0
                          ELSE updateTaskController(
                                  D_promise(D_updateTaskResult(db, id, updates, now))),
                retV |-> V_updateTaskResult(tasks, id, updates, now),
                retD |-> D_updateTaskResult(db, id, updates, now)]
    /\ UNCHANGED <<now, nextId, pc, loc, base>>

\* updateTask(id, updates) called on the stores
UpdateTask ==
    \E id \in Ids, updates \in Patches : Updated("updateTask", id, updates, 0)

\* PUT /tasks/:id: validateBody(updateTaskSchema), then updateTaskController;
\* code is the answer with the volatile store behind the controller, codeD
\* with the durable store
PutTask ==
    \E id \in Ids, body \in Bodies :
        IF updateTaskSchema(body)
        THEN Updated("PUT", id, body,
                     updateTaskController(
                        V_returned(V_updateTaskResult(tasks, id, body, now))))
        ELSE /\ last.op = "none"
             /\ last' = [op |-> "PUT", id |-> id, updates |-> body, at |-> now,
                         code |-> 400, codeD |-> 400,
                         preTasks |-> tasks, preDb |-> db,
                         retV |-> <<>>, retD |-> <<>>]
             /\ UNCHANGED <<tasks, db, now, nextId, pc, loc, base>>

DeleteTask ==
    \E id \in Ids :
        /\ last.op = "none"
        /\ tasks' = V_deleteTask(tasks, id)
        /\ db' = D_deleteTask(db, id)
        /\ last' = [op |-> "deleteTask", id |-> id,
                    preTasks |-> tasks, preDb |-> db,
                    retV |-> V_deleteTaskResult(tasks, id),
                    retD |-> D_deleteTaskResult(db, id),
                    codeV |-> deleteTaskController(V_returned(V_deleteTaskResult(tasks, id))),
                    codeD |-> deleteTaskController(D_promise(D_deleteTaskResult(db, id)))]
        /\ UNCHANGED <<now, nextId, pc, loc, base>>

GetTaskCount ==
    /\ last.op = "none"
    /\ last' = [op |-> "getTaskCount",
                retV |-> V_getTaskCount(tasks), retD |-> D_getTaskCount(db)]
    /\ UNCHANGED <<tasks, db, now, nextId, pc, loc, base>>

ClearAllTasks ==
    /\ last.op = "none"
    /\ tasks' = V_clearAllTasks(tasks)
    /\ db' = D_clearAllTasks(db)
    /\ last' = [op |-> "clearAllTasks", preTasks |-> tasks, preDb |-> db]
    /\ UNCHANGED <<now, nextId, pc, loc, base>>

\* the call returns and its response is sent; the next call can start
Respond ==
    /\ last.op # "none"
    /\ last' = [op |-> "none"]
    /\ UNCHANGED <<tasks, db, now, nextId, pc, loc, base>>

Next ==
    \/ Tick
    \/ Respond
    \/ CreateTask
    \/ CreateTaskRefused
    \/ GetTaskById
    \/ UpdateTask
    \/ PutTask
    \/ DeleteTask
    \/ GetTaskCount
    \/ ClearAllTasks

Spec == Init /\ [][Next]_vars

-----------------------------------------------------------------------------
(* Claims about calls that run to completion *)

PatchKeys == {"title", "description", "status"}

\* the last call was an update of a record both stores held
UpdateApplied ==
    /\ last.op \in {"updateTask", "PUT"}
    /\ last.retV # <<>>
    /\ last.retD # <<>>

PreV == V_getTaskById(last.preTasks, last.id)[1]
PreD == D_getTaskById(last.preDb, last.id)[1]
PostV == tasks[V_findIndex(last.preTasks, last.id)]
PostD == formatTask(db[D_findIndex(last.preDb, last.id)])

\* C5: an update of an existing record leaves every field of title,
\* description and status that the patch does not carry, and createdAt, as it
\* was, in the stored and in the returned record of both stores; a field the
\* patch carries takes the patch's value.
C5_UpdatePreservesUnspecified ==
    UpdateApplied =>
        /\ \A k \in (PatchKeys \cup {"createdAt"}) \ DOMAIN last.updates :
                /\ PostV[k] = PreV[k]
                /\ last.retV[1][k] = PreV[k]
                /\ PostD[k] = PreD[k]
                /\ last.retD[1][k] = PreD[k]
        /\ \A k \in PatchKeys \cap DOMAIN last.updates :
                /\ PostV[k] = last.updates[k]
                /\ last.retV[1][k] = last.updates[k]
                /\ PostD[k] = last.updates[k]
                /\ last.retD[1][k] = last.updates[k]

\* a status-only update of a PENDING record that has a description
C5_Witness ==
    /\ UpdateApplied
    /\ DOMAIN last.updates = {"status"}
    /\ PreV.status = "PENDING"
    /\ PreV.description = <<"d">>
    /\ last.retD[1].status = "COMPLETED"

\* C7: an update of an existing record sets updatedAt, stored and returned, to
\* the time at which the call ran, whatever updatedAt the patch carries, and
\* that time is not before the record's previous updatedAt.
C7_UpdatedAtIsCallTime ==
    UpdateApplied =>
        /\ PostV.updatedAt = last.at
        /\ last.retV[1].updatedAt = last.at
        /\ PostD.updatedAt = last.at
        /\ last.retD[1].updatedAt = last.at
        /\ last.at >= PreV.updatedAt
        /\ last.at >= PreD.updatedAt

\* an update whose patch carries an updatedAt, run after the clock moved on
C7_Witness ==
    /\ UpdateApplied
    /\ "updatedAt" \in DOMAIN last.updates
    /\ last.updates.updatedAt # last.at
    /\ last.at > PreD.updatedAt

\* C8, as claimed: PUT /tasks/:id with an empty body on an existing record is
\* answered 200, leaves title, description and status alone and advances
\* updatedAt.
C8_EmptyPatchAccepted ==
    ( /\ last.op = "PUT"
      /\ DOMAIN last.updates = {}
      /\ V_getTaskById(last.preTasks, last.id) # <<>> )
    => /\ last.code = 200
       /\ V_getTaskById(tasks, last.id) # <<>>
       /\ V_getTaskById(tasks, last.id)[1].updatedAt = last.at

\* C8, amended: updateTask(id, {}) called on a store that holds the record
\* succeeds, leaves title, description and status alone and sets updatedAt to
\* the time of the call; PUT /tasks/:id with an empty body is refused with 400
\* and changes neither store.
C8_EmptyPatchStoreOnly ==
    /\ ( /\ last.op = "updateTask"
         /\ DOMAIN last.updates = {}
         /\ V_getTaskById(last.preTasks, last.id) # <<>>
         /\ D_getTaskById(last.preDb, last.id) # <<>> )
       => /\ UpdateApplied
          /\ \A k \in PatchKeys :
                /\ PostV[k] = PreV[k] /\ last.retV[1][k] = PreV[k]
                /\ PostD[k] = PreD[k] /\ last.retD[1][k] = PreD[k]
          /\ PostV.updatedAt = last.at /\ last.retV[1].updatedAt = last.at
          /\ PostD.updatedAt = last.at /\ last.retD[1].updatedAt = last.at
    /\ (last.op = "PUT" /\ DOMAIN last.updates = {})
       => /\ last.code = 400
          /\ tasks = last.preTasks
          /\ db = last.preDb

\* an empty patch applied by the store to an existing record, later than its
\* last update
C8_Witness ==
    /\ last.op = "updateTask"
    /\ DOMAIN last.updates = {}
    /\ UpdateApplied
    /\ last.retV[1].updatedAt > PreV.updatedAt
    /\ last.retD[1].updatedAt > PreD.updatedAt

\* C9: right after POST /tasks, getTaskById of the new id returns, from either
\* store, a record with the title given, the description given or "", the
\* status given or PENDING, the generated id, and createdAt = updatedAt.
C9_CreateThenGet ==
    last.op = "createTask" =>
        \A got \in {V_getTaskById(tasks, last.task.id), D_getTaskById(db, last.task.id)} :
            /\ got # <<>>
            /\ got[1].id = last.task.id
            /\ got[1].title = last.body.title
            /\ got[1].description = last.body.description
            /\ got[1].status = (IF last.body.status = "" THEN "PENDING" ELSE last.body.status)
            /\ got[1].createdAt = got[1].updatedAt

Present(ts, id) == \E i \in 1..Len(ts) : ts[i].id = id

\* C10: deleteTask(id) returns true exactly when the store held the record and
\* the record is gone afterwards; an id that was handed out and is gone stays
\* gone, so every later deleteTask(id) returns false; an id never handed out
\* is never held.  Hence one true per creation.
C10_DeleteOnce ==
    [][ /\ (last'.op = "deleteTask" /\ last' # last) =>
            /\ last'.retV = Present(tasks, last'.id)
            /\ last'.retD = Present(db, last'.id)
            /\ ~Present(tasks', last'.id)
            /\ ~Present(db', last'.id)
        /\ \A id \in Ids :
            /\ (id <= nextId /\ ~Present(tasks, id)) => ~Present(tasks', id)
            /\ (id <= nextId /\ ~Present(db, id)) => ~Present(db', id)
            /\ id > nextId => ~Present(tasks, id) /\ ~Present(db, id)
      ]_vars

\* a second deleteTask of an id, after the first one removed the record
C10_Witness ==
    /\ last.op = "deleteTask"
    /\ last.id <= nextId
    /\ ~Present(last.preTasks, last.id)
    /\ ~Present(last.preDb, last.id)
    /\ last.retV = FALSE
    /\ last.retD = FALSE

\* every record of the collection has a title that is not empty and a status
\* of the enumeration
WellFormed(ts) ==
    \A i \in 1..Len(ts) : ts[i].title # <<>> /\ ts[i].status \in TaskStatus

\* C23: whatever creations and updates were accepted before, every record has
\* a non-empty title and a status that is one of PENDING, IN_PROGRESS,
\* COMPLETED, in either store.
C23_TitleAndStatusWellFormed == WellFormed(tasks) /\ WellFormed(db)

\* a record created without a status and then given a new title
C23_Witness ==
    /\ last.op = "updateTask"
    /\ "title" \in DOMAIN last.updates
    /\ last.retV # <<>> /\ last.retD # <<>>
    /\ PreV.title = <<"_">> /\ PreV.status = "PENDING"
    /\ last.retV[1].title = <<"b">> /\ last.retD[1].title = <<"b">>
    /\ last.retV[1].status = "PENDING" /\ last.retD[1].status = "PENDING"

\* post is pre with nothing but the record of id changed: same length, and
\* every other record as it was and where it was (so the changed record is
\* where it was, too)
OnlyRecordChanged(pre, post, id) ==
    /\ Len(post) = Len(pre)
    /\ \A i \in 1..Len(pre) : pre[i].id # id => post[i] = pre[i]

\* post is pre without the record of id: one record fewer, the records before
\* it at their places, the records after it one place earlier
OnlyRecordRemoved(pre, post, id) ==
    LET at == findIndex({i \in 1..Len(pre) : pre[i].id = id})
    IN  /\ Len(post) = Len(pre) - 1
        /\ \A i \in 1..Len(post) :
                post[i] = (IF i < at THEN pre[i] ELSE pre[i + 1])

C27_WitnessUpdate ==
    /\ last.op = "updateTask"
    /\ Len(last.preTasks) = 2 /\ Len(last.preDb) = 2
    /\ last.preTasks[2].id = last.id
    /\ tasks[2] # last.preTasks[2] /\ tasks[1] = last.preTasks[1]
    /\ db[2] # last.preDb[2] /\ db[1] = last.preDb[1]

\* C15: getTaskById, updateTask and deleteTask of an id neither store holds
\* return the absent result (no record; false for deleteTask) and leave both
\* collections as they were, records, fields and order.
C15_AbsentIdNoEffect ==
    [][ ( /\ last' # last
          /\ last'.op \in {"getTaskById", "updateTask", "deleteTask"}
          /\ ~Present(tasks, last'.id)
          /\ ~Present(db, last'.id) ) =>
            /\ tasks' = tasks
            /\ db' = db
            /\ last'.retV = (IF last'.op = "deleteTask" THEN FALSE ELSE <<>>)
            /\ last'.retD = (IF last'.op = "deleteTask" THEN FALSE ELSE <<>>)
      ]_vars

\* updateTask of an id that is not stored, while another record is
C15_Witness ==
    /\ last.op = "updateTask"
    /\ last.preTasks # <<>>
    /\ ~Present(last.preTasks, last.id)
    /\ ~Present(last.preDb, last.id)
    /\ last.retV = <<>>
    /\ last.retD = <<>>
    /\ tasks = last.preTasks
    /\ db = last.preDb

\* the last call was a request through a controller, for an id neither store
\* held
AbsentIdRequest ==
    /\ last.op \in {"getTaskById", "PUT", "deleteTask"}
    /\ last.op = "PUT" => last.code # 400
    /\ ~Present(last.preTasks, last.id)
    /\ ~Present(last.preDb, last.id)

\* C16: GET, PUT (with a valid body) and DELETE /tasks/:id for an id that is
\* not stored are answered 404, never with a success, with the volatile and
\* with the durable store behind the controller.
C16_AbsentIdIs404 ==
    AbsentIdRequest =>
        /\ (IF last.op = "PUT" THEN last.code ELSE last.codeV) = 404
        /\ last.codeD = 404

\* the same with the volatile store behind the controllers
C16_VolatileOnly ==
    AbsentIdRequest => (IF last.op = "PUT" THEN last.code ELSE last.codeV) = 404

-----------------------------------------------------------------------------
(* updateTask called on the stores with a patch that carries id or createdAt:
   the request schema refuses such a body, a direct caller can pass it *)

RawPatches ==
    { [id |-> 2], [createdAt |-> 0], [id |-> 2, status |-> "COMPLETED"],
      [createdAt |-> MaxClock] }

RawUpdateTask ==
    \E id \in Ids, updates \in RawPatches : Updated("updateTask", id, updates, 0)

NextRaw ==
    \/ Tick
    \/ Respond
    \/ CreateTask
    \/ RawUpdateTask
    \/ DeleteTask

SpecRaw == Init /\ [][NextRaw]_vars

\* C6: whatever the patch carries, id and createdAt included, an update of an
\* existing record leaves the record's id and createdAt as they were, in the
\* stored and in the returned record of both stores.
C6_IdAndCreatedAtImmutable ==
    UpdateApplied =>
        \A k \in {"id", "createdAt"} :
            /\ PostV[k] = PreV[k]
            /\ last.retV[1][k] = PreV[k]
            /\ PostD[k] = PreD[k]
            /\ last.retD[1][k] = PreD[k]

\* no two records of the collection have the same id
UniqueIds(ts) == \A i, j \in 1..Len(ts) : ts[i].id = ts[j].id => i = j

\* C21: whatever creations, updates and deletions came before, no two records
\* of a collection have the same id, in either store.
C21_UniqueIds == UniqueIds(tasks) /\ UniqueIds(db)

\* every record of the collection was last updated no earlier than it was
\* created
UpdatedNotBeforeCreated(ts) == \A i \in 1..Len(ts) : ts[i].updatedAt >= ts[i].createdAt

\* C22: whatever creations and updates came before, every record of a
\* collection has updatedAt >= createdAt, in either store.
C22_UpdatedAtNotBeforeCreatedAt ==
    UpdatedNotBeforeCreated(tasks) /\ UpdatedNotBeforeCreated(formatTasks(db))

-----------------------------------------------------------------------------
(* Queries: one getAllTasks call on a collection the stores can hold *)

\* what one creation contributes: title, status, whether the clock moved on
\* since the previous creation, and the description
QueryChoices ==
    { <<<<"A", "b">>, "PENDING", 0, <<>>>>,
      <<<<"A", "b">>, "COMPLETED", 1, <<"_">>>>,
      <<<<"_">>, "IN_PROGRESS", 1, <<"a", "b">>>>,
      <<<<"_">>, "COMPLETED", 0, <<>>>> }

\* createdAt of the i-th task created
RECURSIVE CreatedAt(_, _)
CreatedAt(f, i) == IF i = 0 THEN StartClock ELSE CreatedAt(f, i - 1) + f[i][3]

\* the collections left by n creations
QueryCollections ==
    UNION { { [i \in 1..n |->
                 [id |-> i, title |-> f[i][1], description |-> f[i][4],
                  status |-> f[i][2], createdAt |-> CreatedAt(f, i),
                  updatedAt |-> CreatedAt(f, i)]] :
              f \in [1..n -> QueryChoices] } : n \in 0..MaxQueryTasks }

toRows(ts) == IF ts = <<>> THEN <<>> ELSE [i \in 1..Len(ts) |-> toRow(ts[i])]

Searches == { <<>>, <<"a">>, <<"a", "B">>, <<"_">> }
StatusInputs == {"", "PENDING", "completed", "In_Progress", "ARCHIVED"}

QueryValues ==
    [page |-> 1, limit |-> 2, status |-> "COMPLETED", search |-> <<"a">>,
     sortBy |-> "title", sortOrder |-> "asc"]

\* query strings of GET /tasks
Queries ==
    {Restrict(QueryValues, K) :
        K \in { {}, {"page", "limit"}, {"status"}, {"status", "search"}, {"limit"},
                {"sortBy", "sortOrder"}, {"sortBy"} }}
    \cup { [status |-> "completed"], [page |-> 0, limit |-> 2],
           [sortBy |-> "createdAt", sortOrder |-> "desc"],
           [sortBy |-> "status", sortOrder |-> "desc"] }

InitQuery ==
    /\ tasks \in QueryCollections
    /\ db = toRows(tasks)
    /\ now = StartClock
    /\ nextId = Len(tasks)
    /\ last = [op |-> "none"]
    /\ pc = Idle
    /\ loc = NoLocals
    /\ base = <<>>

\* GET /tasks: getAllTasks(page, limit, status, search) on either store
GetAllTasks ==
    \E page \in 0..MaxPage, limit \in 0..MaxLimit,
       status \in StatusInputs, search \in Searches :
        /\ last.op = "none"
        /\ last' = [op |-> "getAllTasks", page |-> page, limit |-> limit,
                    status |-> status, search |-> search,
                    preTasks |-> tasks, preDb |-> db,
                    retV |-> V_getAllTasks(tasks, page, limit, status, search),
                    retD |-> D_getAllTasks(db, page, limit, status, search)]
        /\ tasks' = V_tasksAfterGetAllTasks(tasks, page, limit, status, search)
        /\ db' = D_rowsAfterGetAllTasks(db, page, limit, status, search)
        /\ UNCHANGED <<now, nextId, pc, loc, base>>

\* GET /tasks: validateQuery(queryParamsSchema), then getAllTasksController
\* with the volatile and with the durable store behind it
GetTasks ==
    \E query \in Queries :
        /\ last.op = "none"
        /\ last' =
             IF queryParamsSchema(query)
             THEN [op |-> "GET /tasks", query |-> query,
                   respV |-> getAllTasksController(
                                V_returned(V_getAllTasks(tasks, pageNum(query),
                                    limitNum(query), statusOf(query), searchOf(query))),
                                query),
                   respD |-> getAllTasksController(
                                D_promise(D_getAllTasks(db, pageNum(query),
                                    limitNum(query), statusOf(query), searchOf(query))),
                                query)]
             ELSE [op |-> "GET /tasks", query |-> query,
                   respV |-> [code |-> 400], respD |-> [code |-> 400]]
        /\ UNCHANGED <<tasks, db, now, nextId, pc, loc, base>>

\* GET /tasks/stats: getTaskStats over the value getAllTasks() returns to it,
\* from the volatile store and from the durable store
GetTaskStats ==
    /\ last.op = "none"
    /\ last' = [op |-> "getTaskStats",
                retV |-> getTaskStats(V_returned(V_getAllTasks(tasks, 0, 0, "", <<>>))),
                retD |-> getTaskStats(D_promise(D_getAllTasks(db, 0, 0, "", <<>>)))]
    /\ UNCHANGED <<tasks, db, now, nextId, pc, loc, base>>

NextQuery ==
    \/ GetAllTasks
    \/ GetTasks
    \/ GetTaskStats
    \/ Respond

SpecQuery == InitQuery /\ [][NextQuery]_vars

\* C3: a call with the same arguments returns the same result from the
\* volatile and from the durable store.
C3_StoresAgree ==
    last.op = "getAllTasks" => last.retV = last.retD

RECURSIVE V_pages(_, _, _, _, _)
V_pages(ts, n, limit, status, search) ==
    IF n = 0 THEN <<>>
    ELSE V_pages(ts, n - 1, limit, status, search)
            \o V_getAllTasks(ts, n, limit, status, search).tasks

RECURSIVE D_pages(_, _, _, _, _)
D_pages(rows, n, limit, status, search) ==
    IF n = 0 THEN <<>>
    ELSE D_pages(rows, n - 1, limit, status, search)
            \o D_getAllTasks(rows, n, limit, status, search).tasks

\* C4: with page >= 1 and limit >= 1 a page holds at most limit tasks, and the
\* pages 1..totalPages, one after the other, are the whole filtered, sorted
\* set (what the call without page and limit returns), in both stores.
C4_PagesPartition ==
    (last.op = "getAllTasks" /\ last.page >= 1 /\ last.limit >= 1) =>
        /\ Len(last.retV.tasks) <= last.limit
        /\ Len(last.retD.tasks) <= last.limit
        /\ V_pages(tasks, last.retV.totalPages, last.limit, last.status, last.search)
             = V_getAllTasks(tasks, 0, 0, last.status, last.search).tasks
        /\ D_pages(db, last.retD.totalPages, last.limit, last.status, last.search)
             = D_getAllTasks(db, 0, 0, last.status, last.search).tasks
        /\ last.retV.tasks
             = slice(V_getAllTasks(tasks, 0, 0, last.status, last.search).tasks,
                     (last.page - 1) * last.limit, last.page * last.limit)
        /\ last.retD.tasks
             = slice(D_getAllTasks(db, 0, 0, last.status, last.search).tasks,
                     (last.page - 1) * last.limit, last.page * last.limit)

\* the last page of three tasks, two to a page: one task, totalPages = 2
C4_Witness ==
    /\ last.op = "getAllTasks"
    /\ Len(tasks) = 3
    /\ last.page = 2 /\ last.limit = 2
    /\ last.status = "" /\ last.search = <<>>
    /\ Len(last.retV.tasks) = 1 /\ last.retV.totalPages = 2
    /\ Len(last.retD.tasks) = 1 /\ last.retD.totalPages = 2
    /\ last.retV.tasks[1].id = V_getAllTasks(tasks, 0, 0, "", <<>>).tasks[3].id

\* the record satisfies the conditions of a list call: its status is the
\* requested one (in canonical form), and its title holds the search string
\* at some position, letter case aside
Satisfies(task, status, search) ==
    /\ status # "" => task.status = statusToUpperCase(status)
    /\ search # <<>> =>
            \E i \in 0..(Len(task.title) - Len(search)) :
                \A k \in 1..Len(search) :
                    LowerChar(task.title[i + k]) = LowerChar(search[k])

SatisfyingIds(status, search) ==
    {tasks[i].id : i \in {j \in 1..Len(tasks) : Satisfies(tasks[j], status, search)}}

ListedIds(result) == {result.tasks[i].id : i \in 1..Len(result.tasks)}

\* C11: a list call without page and limit returns exactly the records whose
\* status is the requested one and whose title contains the search string as
\* a literal substring, letter case aside (the description is not searched),
\* each once, from both stores.
C11_FilterAndSearch ==
    (last.op = "getAllTasks" /\ last.page = 0 /\ last.limit = 0) =>
        /\ ListedIds(last.retV) = SatisfyingIds(last.status, last.search)
        /\ Len(last.retV.tasks) = Cardinality(ListedIds(last.retV))
        /\ ListedIds(last.retD) = SatisfyingIds(last.status, last.search)
        /\ Len(last.retD.tasks) = Cardinality(ListedIds(last.retD))

\* the same of the volatile store alone
C11_VolatileOnly ==
    (last.op = "getAllTasks" /\ last.page = 0 /\ last.limit = 0) =>
        /\ ListedIds(last.retV) = SatisfyingIds(last.status, last.search)
        /\ Len(last.retV.tasks) = Cardinality(ListedIds(last.retV))

\* the number of stored tasks of a status
CountOf(status) == Cardinality({i \in 1..Len(tasks) : tasks[i].status = status})

\* the counts of a GetStats answer are the exact per-status counts of the
\* whole collection
ExactStats(ret) ==
    /\ ret.code = 200
    /\ ret.data.total = Len(tasks)
    /\ ret.data.total = V_getTaskCount(tasks)
    /\ ret.data.pending = CountOf("PENDING")
    /\ ret.data.inProgress = CountOf("IN_PROGRESS")
    /\ ret.data.completed = CountOf("COMPLETED")
    /\ ret.data.pending + ret.data.inProgress + ret.data.completed = ret.data.total

\* C12: whatever the collection holds (nothing included), GetStats answers
\* with total, pending, inProgress and completed equal to the exact counts
\* over the whole collection, total equal to count(), and the three status
\* counts adding up to total, whichever store is behind it.
C12_StatsExactCounts ==
    last.op = "getTaskStats" => ExactStats(last.retV) /\ ExactStats(last.retD)

\* the same of the volatile store alone
C12_VolatileOnly ==
    last.op = "getTaskStats" => ExactStats(last.retV)

\* a GetStats answer carries a completionRate, in hundredths of a percent,
\* within one hundredth of completed / total * 100, and 0 for no tasks
HasCompletionRate(ret) ==
    /\ ret.code = 200
    /\ "completionRate" \in DOMAIN ret.data
    /\ IF Len(tasks) = 0
       THEN ret.data.completionRate = 0
       ELSE (ret.data.completionRate * Len(tasks) - CountOf("COMPLETED") * 10000)
                \in (0 - Len(tasks))..Len(tasks)

\* C13: GetStats answers with a completionRate equal to completed / total * 100
\* to two decimals when there are tasks, and 0 when there are none.
C13_CompletionRate ==
    last.op = "getTaskStats" => HasCompletionRate(last.retV) /\ HasCompletionRate(last.retD)

\* n is ceil(total / limit), for limit >= 1
IsCeil(n, total, limit) == n * limit >= total /\ (n - 1) * limit < total

\* C14: the total of a list call is the size of the filtered set before
\* pagination (what the same call returns without page and limit), whatever
\* page and limit are, and with page and limit supplied totalPages is
\* ceil(total / limit); in both stores.
C14_TotalBeforePagination ==
    last.op = "getAllTasks" =>
        /\ last.retV.total
             = Len(V_getAllTasks(tasks, 0, 0, last.status, last.search).tasks)
        /\ last.retV.total = Cardinality(SatisfyingIds(last.status, last.search))
        /\ last.retD.total
             = Len(D_getAllTasks(db, 0, 0, last.status, last.search).tasks)
        /\ (last.page # 0 /\ last.limit # 0) =>
                /\ IsCeil(last.retV.totalPages, last.retV.total, last.limit)
                /\ IsCeil(last.retD.totalPages, last.retD.total, last.limit)

\* three tasks, two of them COMPLETED, listed by status one to a page: the
\* second page holds one task, total is 2 and totalPages is 2
C14_Witness ==
    /\ last.op = "getAllTasks"
    /\ Len(tasks) = 3
    /\ last.status = "completed" /\ last.search = <<>>
    /\ last.page = 2 /\ last.limit = 1
    /\ last.retV.total = 2 /\ last.retV.totalPages = 2 /\ Len(last.retV.tasks) = 1
    /\ last.retD.total = 2 /\ last.retD.totalPages = 2 /\ Len(last.retD.tasks) = 1

\* position of the record of an id in the volatile and in the durable
\* collection
PlaceV(id) == CHOOSE i \in 1..Len(tasks) : tasks[i].id = id
PlaceD(id) == CHOOSE i \in 1..Len(db) : db[i].id = id

TitleRank(title) ==
    CASE title = <<"A", "b">> -> 1
      [] title = <<"_">> -> 2
      [] OTHER -> 3

StatusRank(status) ==
    CASE status = "COMPLETED" -> 1
      [] status = "IN_PROGRESS" -> 2
      [] OTHER -> 3

SortKey(task, field) ==
    CASE field = "createdAt" -> task.createdAt
      [] field = "updatedAt" -> task.updatedAt
      [] field = "title" -> TitleRank(task.title)
      [] OTHER -> StatusRank(task.status)

\* the answer is a success whose data is in the order of the field, in the
\* direction
SortedAnswer(resp, field, order) ==
    /\ resp.code = 200
    /\ "data" \in DOMAIN resp
    /\ \A i, j \in 1..Len(resp.data) :
            i < j =>
                IF order = "asc"
                THEN SortKey(resp.data[i], field) <= SortKey(resp.data[j], field)
                ELSE SortKey(resp.data[i], field) >= SortKey(resp.data[j], field)

\* C18: a list request that names a sort field of createdAt, updatedAt, title,
\* status (and a direction asc or desc, desc when left out) is accepted and
\* answered with the filtered set in the order of that field in that direction.
C18_SortByField ==
    (last.op = "GET /tasks" /\ "sortBy" \in DOMAIN last.query) =>
        LET order == IF "sortOrder" \in DOMAIN last.query
                     THEN last.query.sortOrder ELSE "desc"
        IN  /\ SortedAnswer(last.respV, last.query.sortBy, order)
            /\ SortedAnswer(last.respD, last.query.sortBy, order)

\* the result is the whole filtered set, with neither page nor totalPages
Unsliced(result) ==
    /\ DOMAIN result = {"tasks", "total"}
    /\ Len(result.tasks) = result.total

\* the result is the slice of the page, with page and totalPages
Sliced(result, page, limit) ==
    /\ DOMAIN result = {"tasks", "total", "page", "totalPages"}
    /\ result.page = page
    /\ Len(result.tasks) =
            IF result.total <= (page - 1) * limit THEN 0
            ELSE Min(limit, result.total - (page - 1) * limit)

IdsOfStatus(status) ==
    {tasks[i].id : i \in {j \in 1..Len(tasks) :
        statusToLowerCase(tasks[j].status) = statusToLowerCase(status)}}

\* C20: a list call with a status filter (and no search, page or limit)
\* returns exactly the records whose status is the requested one compared
\* without regard to letter case, and total is their number; for a status that
\* is none of PENDING, IN_PROGRESS, COMPLETED the result is empty with total 0;
\* in both stores.
C20_StatusFilter ==
    ( /\ last.op = "getAllTasks"
      /\ last.status # ""
      /\ last.search = <<>>
      /\ (last.page = 0 \/ last.limit = 0) ) =>
        /\ ListedIds(last.retV) = IdsOfStatus(last.status)
        /\ last.retV.total = Cardinality(IdsOfStatus(last.status))
        /\ ListedIds(last.retD) = IdsOfStatus(last.status)
        /\ last.retD.total = Cardinality(IdsOfStatus(last.status))
        /\ statusToUpperCase(last.status) \notin TaskStatus =>
                /\ last.retV.tasks = <<>> /\ last.retV.total = 0
                /\ last.retD.tasks = <<>> /\ last.retD.total = 0

\* A = PENDING, B = PENDING, C = COMPLETED listed with status completed: [C],
\* total 1
C20_Witness ==
    /\ last.op = "getAllTasks"
    /\ Len(tasks) = 3
    /\ tasks[1].status = "PENDING" /\ tasks[2].status = "PENDING"
    /\ tasks[3].status = "COMPLETED"
    /\ last.status = "completed" /\ last.search = <<>> /\ last.page = 0
    /\ last.retV.tasks = <<tasks[3]>> /\ last.retV.total = 1
    /\ last.retD.tasks = <<tasks[3]>> /\ last.retD.total = 1

\* a status outside the enumeration on a collection that is not empty
C20_WitnessUnknown ==
    /\ last.op = "getAllTasks"
    /\ Len(tasks) = 3
    /\ last.status = "ARCHIVED" /\ last.search = <<>> /\ last.page = 0
    /\ last.retV.total = 0 /\ last.retD.total = 0

-----------------------------------------------------------------------------
(* Process start: startServer awaits initializeDatabase and then listens.  In
   this specification pc is the position of startServer and loc what
   initializeDatabase has reached *)

InitStart ==
    /\ tasks = <<>>
    /\ db = <<>>
    /\ now = StartClock
    /\ nextId = 0
    /\ last = [op |-> "none"]
    /\ pc = "open"
    /\ loc = [connected |-> FALSE, table |-> FALSE, failed |-> FALSE]
    /\ base = <<>>

\* db = await open({ filename: DB_PATH, driver }) resolves
OpenDatabase ==
    /\ pc = "open"
    /\ pc' = "exec"
    /\ loc' = [loc EXCEPT !.connected = TRUE]
    /\ UNCHANGED <<tasks, db, now, nextId, last, base>>

\* await db.exec(CREATE TABLE IF NOT EXISTS tasks ...) resolves, and
\* initializeDatabase returns
CreateTable ==
    /\ pc = "exec"
    /\ pc' = "initialized"
    /\ loc' = [loc EXCEPT !.table = TRUE]
    /\ UNCHANGED <<tasks, db, now, nextId, last, base>>

\* open or exec rejects: the catch block of initializeDatabase logs the error
\* and calls process.exit(1)
InitializeFails ==
    /\ pc \in {"open", "exec"}
    /\ pc' = "exited"
    /\ loc' = [loc EXCEPT !.failed = TRUE]
    /\ UNCHANGED <<tasks, db, now, nextId, last, base>>

\* app.listen called before initializeDatabase has settled
Listen_withoutAwait ==
    /\ pc \in {"open", "exec", "initialized"}
    /\ pc' = "listening"
    /\ UNCHANGED <<tasks, db, now, nextId, last, loc, base>>

\* app.listen(PORT), after await initializeDatabase()
Listen ==
    /\ pc = "initialized"
    /\ pc' = "listening"
    /\ UNCHANGED <<tasks, db, now, nextId, last, loc, base>>

\* server.on('error'): the port cannot be bound, process.exit(1)
ListenFails ==
    /\ pc = "initialized"
    /\ pc' = "exited"
    /\ UNCHANGED <<tasks, db, now, nextId, last, loc, base>>

\* requests are served once the server listens
Serve ==
    /\ pc = "listening"
    /\ \/ Tick
       \/ Respond
       \/ CreateTask
       \/ GetTaskById
       \/ DeleteTask

NextStart ==
    \/ OpenDatabase
    \/ CreateTable
    \/ InitializeFails
    \/ Listen
    \/ ListenFails
    \/ Serve

SpecStart == InitStart /\ [][NextStart]_vars

\* C24: the server listens, and requests are served, only after
\* initializeDatabase has opened the database and ensured the table; when
\* initialization fails the process has exited, and an exited process never
\* listens.
C24_NoListenWithoutStore ==
    /\ [](pc = "listening" => (loc.connected /\ loc.table /\ ~loc.failed))
    /\ []((last.op # "none" \/ tasks # <<>> \/ db # <<>>) => pc = "listening")
    /\ [](loc.failed => pc = "exited")
    /\ [][pc = "exited" => pc' = "exited"]_vars

\* the server listens and has served a request
C24_Witness ==
    /\ pc = "listening"
    /\ loc.table
    /\ last.op = "createTask"
    /\ db # <<>>

\* CREATE TABLE failed after the database was opened: the process has exited
C24_WitnessFailure ==
    /\ pc = "exited"
    /\ loc.connected /\ loc.failed /\ ~loc.table

-----------------------------------------------------------------------------
(* Requests during which a statement of the durable store fails: db.run,
   db.get or db.all rejects, so the Promise of the store function rejects and
   the table is left as it was *)

\* the Promise of a store function whose statement failed
D_rejected == D_promise([error |-> "SQLITE_ERROR"])

FaultyCalls ==
    {"addTask", "getAllTasks", "getTaskById", "updateTask", "deleteTask", "getTaskStats"}

\* what the controller answers when the store function it calls returns a
\* Promise that rejects; no controller awaits, so its catch block sees nothing
FaultyRequest ==
    \E call \in FaultyCalls, exits \in BOOLEAN :
        /\ last.op = "none"
        /\ last' = [op |-> "fault", call |-> call, attempts |-> 1,
                    exits |-> exits,
                    code |->
                      CASE call = "addTask" -> createTaskController(D_rejected)
                        [] call = "getAllTasks" ->
                              getAllTasksController(D_rejected, Restrict(QueryValues, {})).code
                        [] call = "getTaskById" -> getTaskByIdController(D_rejected)
                        [] call = "updateTask" -> updateTaskController(D_rejected)
                        [] call = "deleteTask" -> deleteTaskController(D_rejected)
                        [] OTHER -> getTaskStats(D_rejected).code]
        /\ UNCHANGED <<tasks, db, now, nextId, pc, loc, base>>

NextFault ==
    \/ Tick
    \/ Respond
    \/ CreateTask
    \/ DeleteTask
    \/ FaultyRequest

SpecFault == Init /\ [][NextFault]_vars

\* C25: a request during which the durable store's statement fails is answered
\* 500 'Internal server error', after one attempt of the statement.
C25_StoreFailureIs500 ==
    last.op = "fault" => (last.code = 500 /\ last.attempts = 1)

-----------------------------------------------------------------------------
(* Durable store under concurrent requests: every await of a statement is a
   point where the other caller's statements and continuations can run *)

\* the table when the callers start: one task
AsyncRows ==
    << toRow([id |-> 1, title |-> <<"A", "b">>, description |-> <<"d">>,
              status |-> "PENDING", createdAt |-> StartClock,
              updatedAt |-> StartClock]) >>

AsyncCalls ==
    { [op |-> "updateTask", id |-> 1, updates |-> u] :
        u \in { [title |-> <<"b">>], [status |-> "COMPLETED"],
                [status |-> "IN_PROGRESS"] } }
    \cup { [op |-> "deleteTask", id |-> 1] }
    \cup { [op |-> "getTaskById", id |-> 1] }
    \cup { [op |-> "addTask", title |-> <<"_">>] }
    \cup { [op |-> "getAllTasks", page |-> pl[1], limit |-> pl[2],
            status |-> "", search |-> <<>>] : pl \in { <<0, 0>>, <<1, 1>> } }

FirstLabel(op) ==
    CASE op = "updateTask" -> "update_select"
      [] op = "deleteTask" -> "delete_run"
      [] op = "getTaskById" -> "get_select"
      [] op = "addTask" -> "add_run"
      [] op = "getAllTasks" -> "list_count"

InitAsync ==
    /\ db = AsyncRows
    /\ tasks = formatTasks(AsyncRows)
    /\ now = StartClock
    /\ nextId = 1
    /\ last = [op |-> "none"]
    /\ pc = Idle
    /\ loc = NoLocals
    /\ base = AsyncRows

\* the locals after a statement changed the table to rows: every getAllTasks
\* in flight has one more table state within its lifetime
Observed(locals, rows) ==
    [q \in Procs |->
        IF locals[q].op = "getAllTasks" /\ pc[q] # "done"
        THEN [locals[q] EXCEPT !.snaps = @ \cup {rows}]
        ELSE locals[q]]

\* a request arrives and its store function runs up to its first await
Call(p) ==
    \E call \in AsyncCalls :
        /\ pc[p] = "idle"
        /\ call.op = "addTask" => nextId < MaxIds
        /\ pc' = [pc EXCEPT ![p] = FirstLabel(call.op)]
        /\ loc' = [loc EXCEPT ![p] =
                    CASE call.op = "getAllTasks" ->
                            [op |-> call.op, page |-> call.page, limit |-> call.limit,
                             status |-> call.status, search |-> call.search,
                             snaps |-> {db}]
                      [] call.op = "addTask" ->
                            [op |-> call.op,
                             task |-> newTask(nextId + 1, call.title, <<>>, "", now, now)]
                      [] OTHER -> call]
        /\ nextId' = IF call.op = "addTask" THEN nextId + 1 ELSE nextId
        /\ UNCHANGED <<tasks, db, now, last, base>>

\* updateTask: const existingTask = await getTaskById(id)
UpdateSelect(p) ==
    /\ pc[p] = "update_select"
    /\ loc' = [loc EXCEPT ![p] =
                [op |-> loc[p].op, id |-> loc[p].id, updates |-> loc[p].updates,
                 existingTask |-> D_getTaskById(db, loc[p].id)]]
    /\ pc' = [pc EXCEPT ![p] = "update_merge"]
    /\ UNCHANGED <<tasks, db, now, nextId, last, base>>

\* updateTask: the not-found return, or the merge and the UPDATE's parameters
UpdateMerge(p) ==
    /\ pc[p] = "update_merge"
    /\ IF loc[p].existingTask = <<>>
       THEN /\ loc' = [loc EXCEPT ![p] =
                        [op |-> loc[p].op, id |-> loc[p].id,
                         updates |-> loc[p].updates, ret |-> <<>>]]
            /\ pc' = [pc EXCEPT ![p] = "done"]
       ELSE /\ loc' = [loc EXCEPT ![p] =
                        [op |-> loc[p].op, id |-> loc[p].id,
                         updates |-> loc[p].updates,
                         updatedTask |-> spread(loc[p].existingTask[1],
                                                loc[p].updates, now)]]
            /\ pc' = [pc EXCEPT ![p] = "update_run"]
    /\ UNCHANGED <<tasks, db, now, nextId, last, base>>

\* updateTask: await db.run(query, params)
UpdateRun(p) ==
    /\ pc[p] = "update_run"
    /\ db' = D_updateQuery(db, loc[p].id, loc[p].updates, loc[p].updatedTask)
    /\ loc' = Observed(loc, db')
    /\ pc' = [pc EXCEPT ![p] = "update_reread"]
    /\ UNCHANGED <<tasks, now, nextId, last, base>>

\* updateTask: return getTaskById(id)
UpdateReread(p) ==
    /\ pc[p] = "update_reread"
    /\ loc' = [loc EXCEPT ![p] =
                [op |-> loc[p].op, id |-> loc[p].id, updates |-> loc[p].updates,
                 updatedTask |-> loc[p].updatedTask,
                 ret |-> D_getTaskById(db, loc[p].id)]]
    /\ pc' = [pc EXCEPT ![p] = "done"]
    /\ UNCHANGED <<tasks, db, now, nextId, last, base>>

\* deleteTask: await db.run('DELETE FROM tasks WHERE id = ?', id)
DeleteRun(p) ==
    /\ pc[p] = "delete_run"
    /\ db' = D_deleteTask(db, loc[p].id)
    /\ loc' = [Observed(loc, db') EXCEPT ![p] =
                [op |-> loc[p].op, id |-> loc[p].id,
                 ret |-> D_deleteTaskResult(db, loc[p].id)]]
    /\ pc' = [pc EXCEPT ![p] = "done"]
    /\ UNCHANGED <<tasks, now, nextId, last, base>>

\* getTaskById: await db.get('SELECT * FROM tasks WHERE id = ?', id)
GetSelect(p) ==
    /\ pc[p] = "get_select"
    /\ loc' = [loc EXCEPT ![p] =
                [op |-> loc[p].op, id |-> loc[p].id,
                 ret |-> D_getTaskById(db, loc[p].id)]]
    /\ pc' = [pc EXCEPT ![p] = "done"]
    /\ UNCHANGED <<tasks, db, now, nextId, last, base>>

\* addTask: await db.run('INSERT INTO tasks ...')
AddRun(p) ==
    /\ pc[p] = "add_run"
    /\ db' = D_addTask(db, loc[p].task)
    /\ loc' = [Observed(loc, db') EXCEPT ![p] =
                [op |-> loc[p].op, task |-> loc[p].task, ret |-> <<loc[p].task>>]]
    /\ pc' = [pc EXCEPT ![p] = "done"]
    /\ UNCHANGED <<tasks, now, nextId, last, base>>

\* getAllTasks: const totalResult = await db.get(countQuery, params)
ListCount(p) ==
    /\ pc[p] = "list_count"
    /\ loc' = [loc EXCEPT ![p] =
                [op |-> loc[p].op, page |-> loc[p].page, limit |-> loc[p].limit,
                 status |-> loc[p].status, search |-> loc[p].search,
                 snaps |-> loc[p].snaps, countRows |-> db]]
    /\ pc' = [pc EXCEPT ![p] = "list_select"]
    /\ UNCHANGED <<tasks, db, now, nextId, last, base>>

\* getAllTasks: const tasks = await db.all(query, params), and the return
ListSelect(p) ==
    /\ pc[p] = "list_select"
    /\ loc' = [loc EXCEPT ![p] =
                [op |-> loc[p].op, page |-> loc[p].page, limit |-> loc[p].limit,
                 status |-> loc[p].status, search |-> loc[p].search,
                 snaps |-> loc[p].snaps,
                 ret |-> D_getAllTasksResult(loc[p].countRows, db, loc[p].page,
                                             loc[p].limit, loc[p].status,
                                             loc[p].search)]]
    /\ pc' = [pc EXCEPT ![p] = "done"]
    /\ UNCHANGED <<tasks, db, now, nextId, last, base>>

\* every request in flight has been answered; the next window of requests
\* starts from the table as it is
Settle ==
    /\ \A p \in Procs : pc[p] \in {"idle", "done"}
    /\ \E p \in Procs : pc[p] = "done"
    /\ pc' = Idle
    /\ loc' = NoLocals
    /\ base' = db
    /\ UNCHANGED <<tasks, db, now, nextId, last>>

NextAsync ==
    \/ Tick
    \/ Settle
    \/ \E p \in Procs :
        \/ Call(p)
        \/ UpdateSelect(p)
        \/ UpdateMerge(p)
        \/ UpdateRun(p)
        \/ UpdateReread(p)
        \/ DeleteRun(p)
        \/ GetSelect(p)
        \/ AddRun(p)
        \/ ListCount(p)
        \/ ListSelect(p)

SpecAsync == InitAsync /\ [][NextAsync]_vars

\* the table and the return value of one call run alone on rows at time t
SerialRows(rows, call, t) ==
    IF call.op = "updateTask" THEN D_updateTask(rows, call.id, call.updates, t)
    ELSE D_deleteTask(rows, call.id)

SerialRet(rows, call, t) ==
    IF call.op = "updateTask" THEN D_updateTaskResult(rows, call.id, call.updates, t)
    ELSE D_deleteTaskResult(rows, call.id)

\* C1: two concurrent update/delete calls on the same id end as if one had run
\* wholly before the other: the table and both return values are those of
\* some serial order (so the record an update returns is its own merge).
C1_UpdateAtomicPerId ==
    ( /\ \A p \in Procs : pc[p] = "done"
      /\ \A p \in Procs : loc[p].op \in {"updateTask", "deleteTask"}
      /\ loc[1].id = loc[2].id )
    => \E p \in Procs, tp \in StartClock..MaxClock, tq \in StartClock..MaxClock :
         LET q == CHOOSE x \in Procs : x # p
             mid == SerialRows(base, loc[p], tp)
         IN  /\ loc[p].ret = SerialRet(base, loc[p], tp)
             /\ loc[q].ret = SerialRet(mid, loc[q], tq)
             /\ db = SerialRows(mid, loc[q], tq)

\* C2: the total and the page a getAllTasks call returns are both read off one
\* state the table was in during the call.
C2_ListOneSnapshot ==
    \A p \in Procs :
        (pc[p] = "done" /\ loc[p].op = "getAllTasks") =>
            \E rows \in loc[p].snaps :
                loc[p].ret = D_getAllTasks(rows, loc[p].page, loc[p].limit,
                                           loc[p].status, loc[p].search)

\* two updateTask calls of one window, on the same stored id, with no field in
\* common, have both returned
DisjointUpdatesDone ==
    /\ \A p \in Procs : pc[p] = "done" /\ loc[p].op = "updateTask"
    /\ loc[1].id = loc[2].id
    /\ DOMAIN loc[1].updates \cap DOMAIN loc[2].updates = {}
    /\ D_findIndex(base, loc[1].id) # 0

\* C26: when two concurrent updateTask calls on the same id supply disjoint
\* sets of fields, the stored row ends with the new values of both, however
\* their statements interleave.
C26_DisjointUpdatesBothApply ==
    DisjointUpdatesDone =>
        /\ D_findIndex(db, loc[1].id) # 0
        /\ \A p \in Procs : \A k \in DOMAIN loc[p].updates :
                db[D_findIndex(db, loc[1].id)][k] = loc[p].updates[k]

\* both calls read the row before either wrote it: each merged record still
\* has the other field's old value, and the row has both new values
C26_Witness ==
    /\ DisjointUpdatesDone
    /\ loc[1].updates = [title |-> <<"b">>]
    /\ loc[2].updates = [status |-> "COMPLETED"]
    /\ loc[1].updatedTask.status = "PENDING"
    /\ loc[2].updatedTask.title = <<"A", "b">>
    /\ db[1].title = <<"b">> /\ db[1].status = "COMPLETED"

=============================================================================
